---- MODULE Spec2Model ----
(***************************************************************************)
(* Capsules: fingerprinting of build-step inputs and outputs               *)
(* (capsule/src/iohashing.rs) and assembly of the configuration            *)
(* (src/config.rs).                                                        *)
(*                                                                         *)
(* Strings and byte buffers are sequences of one-character strings.  A     *)
(* digest is the lower-case hex string that format!("{:x}") produces, cut  *)
(* to its first two characters; the values of Sha256Table are the first    *)
(* two hex characters of the real SHA-256 of each message.                 *)
(***************************************************************************)
EXTENDS Integers, Sequences, FiniteSets, TLC

VARIABLES
    subject,    \* which of the three independent units this run exercises
    sortImpl,   \* which insertion sort the toolchain's slice::sort_by runs
    fs,         \* the file system: path -> file state
    inputs,     \* InputSet.inputs
    inRes,      \* last result of InputSet::hash / InputSet::hash_bundle
    outputs,    \* OutputSet.outputs
    outRes,     \* result of OutputSet::hash / OutputSet::hash_bundle
    outCode,    \* result of OutputHashBundle::result_code
    env,        \* what Config::new reads: HOME, the two files, argv, CAPSULE_ARGS
    cfgRes      \* result of Config::new

vars == <<subject, sortImpl, fs, inputs, inRes, outputs, outRes, outCode, env, cfgRes>>

\* Bounds of the model.
MaxInputs == 3
MaxOutputs == 3
MaxArgs == 3

----------------------------------------------------------------------------
(* Hash primitive *)

HexDigits == <<"0", "1", "2", "3", "4", "5", "6", "7", "8", "9", "a", "b", "c", "d", "e", "f">>

\* Byte value order of a hex character ('0' < ... < '9' < 'a' < ... < 'f').
HexOrd(c) == CHOOSE i \in 1..Len(HexDigits) : HexDigits[i] = c

EmptyStr == <<>>

\* First two hex characters of SHA-256 of the short messages the model uses.
Sha256Table ==
    (EmptyStr :> <<"e", "3">>) @@ (<<"0">> :> <<"5", "f">>) @@ (<<"1">> :> <<"6", "b">>)
    @@ (<<"-", "1">> :> <<"1", "b">>) @@ (<<"x">> :> <<"2", "d">>) @@ (<<"y">> :> <<"a", "1">>)

\* Sha256::new / update / finalize, then format!("{:x}").  Messages outside the table
\* (the bundle preimages) get a symbolic digest that is distinct for distinct messages.
Sha256Hex(msg) ==
    IF msg \in DOMAIN Sha256Table THEN Sha256Table[msg]
    ELSE <<"sha256(">> \o msg \o <<")">>

string_hash(s) == Sha256Hex(s)

bytes_hash(s) == Sha256Hex(s)

\* String::cmp: lexicographic on bytes, a proper prefix is Less.
RECURSIVE StrCmp(_, _)
StrCmp(a, b) ==
    IF a = <<>> /\ b = <<>> THEN "Equal"
    ELSE IF a = <<>> THEN "Less"
    ELSE IF b = <<>> THEN "Greater"
    ELSE IF HexOrd(Head(a)) < HexOrd(Head(b)) THEN "Less"
    ELSE IF HexOrd(Head(a)) > HexOrd(Head(b)) THEN "Greater"
    ELSE StrCmp(Tail(a), Tail(b))

----------------------------------------------------------------------------
(* Files *)

Paths == {<<"a">>, <<"b">>}

Missing == [kind |-> "Missing", content |-> EmptyStr]
ReadErr == [kind |-> "ReadErr", content |-> EmptyStr]
Present(c) == [kind |-> "Present", content |-> c]

FileContents == {EmptyStr, <<"x">>}
FileStates == {Missing, ReadErr} \cup {Present(c) : c \in FileContents}

BUFSIZE == 4096

Min(a, b) == IF a < b THEN a ELSE b

Err(msg) == [ok |-> FALSE, err |-> msg]
Ok(v) == [ok |-> TRUE, val |-> v]

\* The read loop of file_hash: BUFSIZE bytes at a time into the accumulator.
RECURSIVE ReadLoop(_, _)
ReadLoop(rest, acc) ==
    LET rd == Min(Len(rest), BUFSIZE) IN
    IF rd = 0 THEN acc
    ELSE ReadLoop(SubSeq(rest, rd + 1, Len(rest)), acc \o SubSeq(rest, 1, rd))

\* file_hash with a failing read taken for the end of the file.
file_hash_ReadErrAsEof(filename) ==
    IF fs[filename].kind = "Missing" THEN Err("Reading input file")
    ELSE Ok(Sha256Hex(ReadLoop(fs[filename].content, <<>>)))

file_hash(filename) ==
    IF fs[filename].kind = "Missing" THEN Err("Reading input file")
    ELSE IF fs[filename].kind = "ReadErr" THEN Err("read")
    ELSE Ok(Sha256Hex(ReadLoop(fs[filename].content, <<>>)))

\* WorkspacePath::to_path with root = None.
to_path(filename) == Ok(filename)

----------------------------------------------------------------------------
(* slice::sort_by on a short slice: a stable insertion sort driven by the  *)
(* closure.  Toolchains differ in the direction of the insertion           *)
(* (insert_tail from the left, insert_head from the right); the two agree  *)
(* whenever the closure is a total order.                                  *)

SortImpls == {"insert_tail", "insert_head"}

\* The closure of InputSet::hash_bundle's sort_by.
InputCmp(a, b) ==
    IF a[1].kind = "ToolTag"
    THEN IF b[1].kind = "ToolTag" THEN StrCmp(a[2], b[2]) ELSE "Less"
    ELSE StrCmp(a[2], b[2])

\* The closure of OutputSet::hash_bundle's sort_by.
OutputCmp(a, b) == StrCmp(a[2], b[2])

Compare(which, a, b) == IF which = "InputSet" THEN InputCmp(a, b) ELSE OutputCmp(a, b)

is_less(which, a, b) == Compare(which, a, b) = "Less"

\* x, the last element, moves left past every element it is less than.
RECURSIVE insert_tail(_, _, _)
insert_tail(which, sorted, x) ==
    IF sorted = <<>> \/ ~is_less(which, x, sorted[Len(sorted)])
    THEN Append(sorted, x)
    ELSE Append(insert_tail(which, SubSeq(sorted, 1, Len(sorted) - 1), x), sorted[Len(sorted)])

\* x, the first element, moves right past every element that is less than it.
RECURSIVE insert_head(_, _, _)
insert_head(which, x, sorted) ==
    IF sorted = <<>> \/ ~is_less(which, Head(sorted), x)
    THEN <<x>> \o sorted
    ELSE <<Head(sorted)>> \o insert_head(which, x, Tail(sorted))

RECURSIVE SortShiftLeft(_, _, _)
SortShiftLeft(which, done, rest) ==
    IF rest = <<>> THEN done
    ELSE SortShiftLeft(which, insert_tail(which, done, Head(rest)), Tail(rest))

RECURSIVE SortShiftRight(_, _)
SortShiftRight(which, v) ==
    IF v = <<>> THEN <<>>
    ELSE insert_head(which, Head(v), SortShiftRight(which, Tail(v)))

sort_by(which, v) ==
    IF sortImpl = "insert_tail" THEN SortShiftLeft(which, <<>>, v)
    ELSE SortShiftRight(which, v)

----------------------------------------------------------------------------
(* Bundle hash *)

RECURSIVE Concat(_)
Concat(pairs) ==
    IF pairs = <<>> THEN <<>>
    ELSE pairs[1][1] \o pairs[1][2] \o Concat(Tail(pairs))

\* bundle_hash: acc.update(tag); acc.update(hash) for every (tag, hash) in order.
bundle_hash(pairs) == Sha256Hex(Concat(pairs))

----------------------------------------------------------------------------
(* Inputs *)

ToolTag(s) == [kind |-> "ToolTag", val |-> s]
InFile(p) == [kind |-> "File", val |-> p]

ToolTags == {<<"x">>, <<"y">>}
Inputs == {ToolTag(s) : s \in ToolTags} \cup {InFile(p) : p \in Paths}

InputLabel(inp) ==
    IF inp.kind = "File" THEN <<"F", "i", "l", "e">>
    ELSE <<"T", "o", "o", "l", "T", "a", "g">>

\* The match of the loop body of InputSet::hash_bundle.
InputDigest(input) ==
    IF input.kind = "File"
    THEN LET path == to_path(input.val) IN
         IF ~path.ok THEN path ELSE file_hash(path.val)
    ELSE Ok(string_hash(input.val))

\* The for loop of InputSet::hash_bundle; `?` leaves at the first error.
RECURSIVE InputDetails(_, _)
InputDetails(rest, details) ==
    IF rest = <<>> THEN Ok(details)
    ELSE LET hash == InputDigest(Head(rest)) IN
         IF ~hash.ok THEN hash
         ELSE InputDetails(Tail(rest), Append(details, <<Head(rest), hash.val>>))

InputSet_hash_bundle(ins) ==
    LET pushed == InputDetails(ins, <<>>) IN
    IF ~pushed.ok THEN pushed
    ELSE LET hash_details == sort_by("InputSet", pushed.val) IN
         Ok([hash |-> bundle_hash([i \in 1..Len(hash_details) |->
                          <<InputLabel(hash_details[i][1]), hash_details[i][2]>>]),
             hash_details |-> hash_details])

InputSet_hash(ins) ==
    LET b == InputSet_hash_bundle(ins) IN
    IF b.ok THEN Ok(b.val.hash) ELSE b

----------------------------------------------------------------------------
(* Outputs *)

OutFile(p, present) ==
    [kind |-> "File", filename |-> p, present |-> present, mode |-> 420, code |-> 0, bytes |-> <<>>]
ExitCode(c) ==
    [kind |-> "ExitCode", filename |-> <<>>, present |-> FALSE, mode |-> 0, code |-> c, bytes |-> <<>>]
Stdout(b) ==
    [kind |-> "Stdout", filename |-> <<>>, present |-> FALSE, mode |-> 0, code |-> 0, bytes |-> b]
Stderr(b) ==
    [kind |-> "Stderr", filename |-> <<>>, present |-> FALSE, mode |-> 0, code |-> 0, bytes |-> b]

ExitCodes == {0, 1, -1}
Outputs ==
    {OutFile(<<"a">>, pr) : pr \in BOOLEAN} \cup {ExitCode(c) : c \in ExitCodes}
    \cup {Stdout(b) : b \in {EmptyStr, <<"0">>}} \cup {Stderr(EmptyStr)}

\* i32::to_string
RECURSIVE Digits(_)
Digits(n) ==
    IF n < 10 THEN <<HexDigits[n + 1]>>
    ELSE Digits(n \div 10) \o <<HexDigits[(n % 10) + 1]>>

to_string(n) == IF n < 0 THEN <<"-">> \o Digits(-n) ELSE Digits(n)

OutputLabel(out) ==
    CASE out.kind = "File" -> <<"F", "i", "l", "e">>
      [] out.kind = "ExitCode" -> <<"E", "x", "i", "t", "C", "o", "d", "e">>
      [] out.kind = "Stdout" -> <<"S", "t", "d", "O", "u", "t">>
      [] out.kind = "Stderr" -> <<"S", "t", "d", "E", "r", "r">>

\* The absent file hashed like an empty string.
AbsentFileDigest_HashOfEmpty == string_hash(EmptyStr)

\* The digest pushed for a File output with present = false: "".to_string().
AbsentFileDigest == EmptyStr

\* The loop body with the present flag of a File output ignored.
OutputDigest_IgnoresPresent(output) ==
    CASE output.kind = "File" ->
            LET path == to_path(output.filename) IN
            IF ~path.ok THEN path ELSE file_hash(path.val)
      [] output.kind = "ExitCode" -> Ok(string_hash(to_string(output.code)))
      [] output.kind = "Stdout" -> Ok(bytes_hash(output.bytes))
      [] output.kind = "Stderr" -> Ok(bytes_hash(output.bytes))

\* The match of the loop body of OutputSet::hash_bundle.
OutputDigest(output) ==
    CASE output.kind = "File" ->
            IF output.present
            THEN LET path == to_path(output.filename) IN
                 IF ~path.ok THEN path ELSE file_hash(path.val)
            ELSE Ok(AbsentFileDigest)
      [] output.kind = "ExitCode" -> Ok(string_hash(to_string(output.code)))
      [] output.kind = "Stdout" -> Ok(bytes_hash(output.bytes))
      [] output.kind = "Stderr" -> Ok(bytes_hash(output.bytes))

\* The for loop of OutputSet::hash_bundle; `?` leaves at the first error.
RECURSIVE OutputDetails(_, _)
OutputDetails(rest, details) ==
    IF rest = <<>> THEN Ok(details)
    ELSE LET hash == OutputDigest(Head(rest)) IN
         IF ~hash.ok THEN hash
         ELSE OutputDetails(Tail(rest), Append(details, <<Head(rest), hash.val>>))

OutputSet_hash_bundle(outs) ==
    LET pushed == OutputDetails(outs, <<>>) IN
    IF ~pushed.ok THEN pushed
    ELSE LET hash_details == sort_by("OutputSet", pushed.val) IN
         Ok([hash |-> bundle_hash([i \in 1..Len(hash_details) |->
                          <<OutputLabel(hash_details[i][1]), hash_details[i][2]>>]),
             hash_details |-> hash_details])

OutputSet_hash(outs) ==
    LET b == OutputSet_hash_bundle(outs) IN
    IF b.ok THEN Ok(b.val.hash) ELSE b

\* Option<i32>
SomeCode(c) == [some |-> TRUE, code |-> c]
NoCode == [some |-> FALSE, code |-> 0]

\* result_code looking at the first entry of hash_details only.
result_code_FirstEntryOnly(hash_details) ==
    IF hash_details # <<>> /\ hash_details[1][1].kind = "ExitCode"
    THEN SomeCode(hash_details[1][1].code)
    ELSE NoCode

\* OutputHashBundle::result_code: the first ExitCode met in hash_details.
RECURSIVE result_code(_)
result_code(hash_details) ==
    IF hash_details = <<>> THEN NoCode
    ELSE IF hash_details[1][1].kind = "ExitCode" THEN SomeCode(hash_details[1][1].code)
    ELSE result_code(Tail(hash_details))

----------------------------------------------------------------------------
(* Configuration (src/config.rs).  An Option is a sequence of at most one  *)
(* element.                                                                *)

Some(x) == <<x>>
NoOpt == <<>>

Config_default ==
    [milestone |-> "Placebo", capsule_id |-> NoOpt, input_files |-> <<>>, tool_tags |-> <<>>,
     output_files |-> <<>>, capture_stdout |-> FALSE, capture_stderr |-> FALSE]

\* A file is absent, present and not TOML of the expected shape, or present and well formed.
Absent(v) == [kind |-> "Absent", val |-> v]
Malformed(v) == [kind |-> "Malformed", val |-> v]
Toml(v) == [kind |-> "Toml", val |-> v]

\* std::fs::read_to_string
read_to_string(file) == IF file.kind = "Absent" THEN Err("not found") ELSE Ok(file)

\* toml::from_str
toml_from_str(contents) ==
    IF contents.kind = "Toml" THEN Ok(contents.val) ELSE Err("toml")

\* ArgMatches
NoMatches ==
    [capsule_id |-> NoOpt, input |-> <<>>, tool |-> <<>>, output |-> <<>>,
     stdout |-> FALSE, stderr |-> FALSE]

IsOption(t) == t \in {"-c", "--capsule_id", "-i", "--input", "-t", "--tool", "-o", "--output",
                      "--stdout", "--stderr"}

\* The App of Config::new applied to the arguments after the binary name.
RECURSIVE ParseArgs(_, _)
ParseArgs(args, m) ==
    IF args = <<>> THEN Ok(m)
    ELSE LET t == Head(args)
             hasValue == Len(args) >= 2 /\ ~IsOption(args[2])
             rest2 == SubSeq(args, 3, Len(args))
         IN
         CASE t \in {"-c", "--capsule_id"} ->
                IF ~hasValue \/ m.capsule_id # NoOpt THEN Err("usage")
                ELSE ParseArgs(rest2, [m EXCEPT !.capsule_id = Some(args[2])])
           [] t \in {"-i", "--input"} ->
                IF ~hasValue THEN Err("usage")
                ELSE ParseArgs(rest2, [m EXCEPT !.input = Append(@, args[2])])
           [] t \in {"-t", "--tool"} ->
                IF ~hasValue THEN Err("usage")
                ELSE ParseArgs(rest2, [m EXCEPT !.tool = Append(@, args[2])])
           [] t \in {"-o", "--output"} ->
                IF ~hasValue THEN Err("usage")
                ELSE ParseArgs(rest2, [m EXCEPT !.output = Append(@, args[2])])
           [] t = "--stdout" ->
                IF m.stdout THEN Err("usage")
                ELSE ParseArgs(Tail(args), [m EXCEPT !.stdout = TRUE])
           [] t = "--stderr" ->
                IF m.stderr THEN Err("usage")
                ELSE ParseArgs(Tail(args), [m EXCEPT !.stderr = TRUE])
           [] OTHER -> Err("usage")

\* App::get_matches_from: the first item is the binary name.
get_matches_from(itr) ==
    IF itr = <<>> THEN Ok(NoMatches) ELSE ParseArgs(Tail(itr), NoMatches)

\* for matches in &match_sources: the capsule_id of each source in turn.
RECURSIVE ApplyCapsuleId(_, _)
ApplyCapsuleId(match_sources, config) ==
    IF match_sources = <<>> THEN config
    ELSE ApplyCapsuleId(Tail(match_sources),
            IF Head(match_sources).capsule_id # NoOpt
            THEN [config EXCEPT !.capsule_id = Head(match_sources).capsule_id]
            ELSE config)

\* for matches in match_sources: the lists are extended, the flags are set.
RECURSIVE ApplyMatches(_, _)
ApplyMatches(match_sources, config) ==
    IF match_sources = <<>> THEN config
    ELSE LET m == Head(match_sources) IN
         ApplyMatches(Tail(match_sources),
            [config EXCEPT !.input_files = @ \o m.input,
                           !.tool_tags = @ \o m.tool,
                           !.output_files = @ \o m.output,
                           !.capture_stdout = @ \/ m.stdout,
                           !.capture_stderr = @ \/ m.stderr])

CfgOk(config) == [kind |-> "Ok", msg |-> "", config |-> config]
CfgErr(msg) == [kind |-> "Err", msg |-> msg, config |-> Config_default]
\* clap prints the usage error and ends the process.
CfgExit == [kind |-> "Exit", msg |-> "usage", config |-> Config_default]

\* The array match_sources: the command line first, CAPSULE_ARGS second.
MatchSources(cmdline, capsule_args) == <<cmdline, capsule_args>>

\* Config::new, lines 44-51: the per-user file.
HomeConfig(e) ==
    IF ~e.HOME THEN Config_default
    ELSE LET contents == read_to_string(e.homeFile) IN
         IF ~contents.ok THEN Config_default
         ELSE LET home_config == toml_from_str(contents.val) IN
              IF home_config.ok THEN home_config.val ELSE Config_default

Config_new(e) ==
    LET config0 == HomeConfig(e)
        contents == read_to_string(e.dirFile)
        parsed == IF contents.ok THEN toml_from_str(contents.val) ELSE Err("not found")
        dir_config == IF parsed.ok THEN parsed.val ELSE <<>>
        cmdline == get_matches_from(e.args)
        capsule_args == get_matches_from(e.CAPSULE_ARGS)
    IN
    IF contents.ok /\ ~parsed.ok THEN CfgErr("Could not parse Capsules.toml")
    ELSE IF ~cmdline.ok \/ ~capsule_args.ok THEN CfgExit
    ELSE LET match_sources == MatchSources(cmdline.val, capsule_args.val)
             config1 == ApplyCapsuleId(match_sources, config0)
             keys == DOMAIN dir_config
         IN
         IF config1.capsule_id = NoOpt /\ Cardinality(keys) # 1
         THEN CfgErr("Cannot determine capsule_id")
         ELSE LET config2 ==
                      IF config1.capsule_id = NoOpt
                      THEN [config1 EXCEPT !.capsule_id = Some(CHOOSE k \in keys : TRUE)]
                      ELSE config1
              IN CfgOk(ApplyMatches(match_sources, config2))

----------------------------------------------------------------------------
(* The inputs the model draws *)

ArgOpts == {<<"-c", "A">>, <<"-c", "B">>, <<"-i", "f1">>, <<"--stdout">>}

\* The argument lists made of at most n options.
RECURSIVE OptSeqs(_)
OptSeqs(n) ==
    IF n = 0 THEN {<<>>}
    ELSE LET S == OptSeqs(n - 1) IN S \cup {s \o o : s \in S, o \in ArgOpts}

\* The number of options in an argument list.
NumOpts(s) == Cardinality({i \in 1..Len(s) : IsOption(s[i])})

\* std::env::args_os() is the binary name and then the arguments; CAPSULE_ARGS split
\* at whitespace (unset gives the empty list) comes with or without a leading word in
\* the place of the binary name.  The two hold at most MaxArgs options together.
ArgSources ==
    {<<(<<"capsule">> \o a), lead \o c>> :
        a \in OptSeqs(MaxArgs),
        c \in OptSeqs(MaxArgs),
        lead \in {<<>>, <<"capsule">>}}

HomeToml ==
    [milestone |-> "BluePill", capsule_id |-> NoOpt, input_files |-> <<"h.c">>,
     tool_tags |-> <<"gcc">>, output_files |-> <<>>, capture_stdout |-> FALSE,
     capture_stderr |-> TRUE]

DirEntry(src) ==
    [milestone |-> "Placebo", capsule_id |-> NoOpt, input_files |-> <<src>>,
     tool_tags |-> <<"ld">>, output_files |-> <<"d.o">>, capture_stdout |-> TRUE,
     capture_stderr |-> FALSE]

HomeFiles == {Absent(Config_default), Malformed(Config_default), Toml(HomeToml)}

DirFiles ==
    {Absent(<<>>), Malformed(<<>>), Toml(<<>>), Toml([k \in {"A"} |-> DirEntry("d.c")]),
     Toml([k \in {"A", "B"} |-> DirEntry("e.c")])}

Envs ==
    {[HOME |-> h, homeFile |-> hf, dirFile |-> df, args |-> ac[1], CAPSULE_ARGS |-> ac[2]] :
        h \in BOOLEAN, hf \in HomeFiles, df \in DirFiles,
        ac \in {x \in ArgSources : NumOpts(x[1]) + NumOpts(x[2]) <= MaxArgs}}

NoEnv ==
    [HOME |-> FALSE, homeFile |-> Absent(Config_default), dirFile |-> Absent(<<>>),
     args |-> <<"capsule">>, CAPSULE_ARGS |-> <<>>]

NoFiles == [p \in Paths |-> Missing]

Subjects == {"InputSet", "OutputSet", "Config"}

NotCalled == [op |-> "none", of |-> <<>>, res |-> Err("")]
Called(op, of, res) == [op |-> op, of |-> of, res |-> res]

----------------------------------------------------------------------------
(* The state machine.  The three units share no state, so a run exercises  *)
(* one of them, on a file system and an environment fixed at its start.    *)

Init ==
    /\ subject \in Subjects
    /\ sortImpl \in (IF subject = "Config" THEN {"insert_tail"} ELSE SortImpls)
    /\ fs \in (CASE subject = "InputSet" -> [Paths -> FileStates]
                 [] subject = "OutputSet" ->
                        {f \in [Paths -> FileStates] : f[<<"b">>] = Missing}
                 [] OTHER -> {NoFiles})
    /\ env \in (IF subject = "Config"
                THEN {e \in Envs : ~e.HOME => e.homeFile.kind = "Absent"}
                ELSE {NoEnv})
    /\ inputs = <<>>
    /\ inRes = NotCalled
    /\ outputs = <<>>
    /\ outRes = NotCalled
    /\ outCode = NotCalled
    /\ cfgRes = NotCalled

\* InputSet::add_input
add_input(input) ==
    /\ subject = "InputSet"
    /\ Len(inputs) < MaxInputs
    /\ inputs' = Append(inputs, input)
    /\ UNCHANGED <<subject, sortImpl, fs, inRes, outputs, outRes, outCode, env, cfgRes>>

\* InputSet::hash_bundle, on a clone of the set (InputSet is Clone).
HashBundleInputs ==
    /\ subject = "InputSet"
    /\ inRes' = Called("hash_bundle", inputs, InputSet_hash_bundle(inputs))
    /\ UNCHANGED <<subject, sortImpl, fs, inputs, outputs, outRes, outCode, env, cfgRes>>

\* InputSet::hash, on a clone of the set.
HashInputs ==
    /\ subject = "InputSet"
    /\ inRes' = Called("hash", inputs, InputSet_hash(inputs))
    /\ UNCHANGED <<subject, sortImpl, fs, inputs, outputs, outRes, outCode, env, cfgRes>>

\* OutputSet::add_output; the set is gone once it has been hashed.
add_output(output) ==
    /\ subject = "OutputSet"
    /\ outRes.op = "none"
    /\ Len(outputs) < MaxOutputs
    /\ outputs' = Append(outputs, output)
    /\ UNCHANGED <<subject, sortImpl, fs, inputs, inRes, outRes, outCode, env, cfgRes>>

\* OutputSet::hash_bundle consumes the set.
HashBundleOutputs ==
    /\ subject = "OutputSet"
    /\ outRes.op = "none"
    /\ outRes' = Called("hash_bundle", outputs, OutputSet_hash_bundle(outputs))
    /\ UNCHANGED <<subject, sortImpl, fs, inputs, inRes, outputs, outCode, env, cfgRes>>

\* OutputSet::hash consumes the set.
HashOutputs ==
    /\ subject = "OutputSet"
    /\ outRes.op = "none"
    /\ outRes' = Called("hash", outputs, OutputSet_hash(outputs))
    /\ UNCHANGED <<subject, sortImpl, fs, inputs, inRes, outputs, outCode, env, cfgRes>>

\* OutputHashBundle::result_code on the bundle hash_bundle returned.
ResultCode ==
    /\ subject = "OutputSet"
    /\ outRes.op = "hash_bundle"
    /\ outRes.res.ok
    /\ outCode.op = "none"
    /\ outCode' = Called("result_code", outRes.res.val.hash_details,
                         Ok(result_code(outRes.res.val.hash_details)))
    /\ UNCHANGED <<subject, sortImpl, fs, inputs, inRes, outputs, outRes, env, cfgRes>>

\* Config::new, once per process.
ConfigNew ==
    /\ subject = "Config"
    /\ cfgRes.op = "none"
    /\ cfgRes' = Called("new", <<>>, Config_new(env))
    /\ UNCHANGED <<subject, sortImpl, fs, inputs, inRes, outputs, outRes, outCode, env>>

Next ==
    \/ \E input \in Inputs : add_input(input)
    \/ HashBundleInputs
    \/ HashInputs
    \/ \E output \in Outputs : add_output(output)
    \/ HashBundleOutputs
    \/ HashOutputs
    \/ ResultCode
    \/ ConfigNew

Spec == Init /\ [][Next]_vars

----------------------------------------------------------------------------
(* Properties *)

\* Every reordering of the sequence s.
Perms(s) ==
    LET n == Len(s)
        bij == {f \in [1..n -> 1..n] : \A i, j \in 1..n : f[i] = f[j] => i = j}
    IN {[i \in 1..n |-> s[f[i]]] : f \in bij}

InHashed == inRes.op # "none" /\ inRes.res.ok
InBundled == inRes.op = "hash_bundle" /\ inRes.res.ok
OutHashed == outRes.op # "none" /\ outRes.res.ok
OutBundled == outRes.op = "hash_bundle" /\ outRes.res.ok

\* The top-level hash a call returned, from hash or from hash_bundle.
TopHash(r) == IF r.op = "hash" THEN r.res.val ELSE r.res.val.hash

Unreadable(p) == fs[p].kind \in {"Missing", "ReadErr"}

\* C1: whenever InputSet::hash or hash_bundle has returned a hash for a set, hashing
\* any permutation of that set (files unchanged) returns the same top-level hash.
C1_InputHashOrderIndependent ==
    InHashed =>
        \A p \in Perms(inRes.of) :
            /\ InputSet_hash(p).ok
            /\ InputSet_hash(p).val = TopHash(inRes)
            /\ InputSet_hash_bundle(p).val.hash = TopHash(inRes)

\* C2: in the hash_details of a bundle returned by InputSet::hash_bundle every ToolTag
\* entry is at a lower index than every File entry, and the digests of the ToolTag
\* entries and of the File entries are each non-decreasing.
C2_ToolTagsFirstGroupsSorted ==
    InBundled =>
        LET d == inRes.res.val.hash_details IN
        \A i, j \in 1..Len(d) :
            i < j =>
                /\ d[j][1].kind = "ToolTag" => d[i][1].kind = "ToolTag"
                /\ d[i][1].kind = d[j][1].kind => StrCmp(d[i][2], d[j][2]) # "Greater"

\* C3: the hash_details sequence InputSet::hash_bundle returns is the same for every
\* insertion order of the same multiset of inputs.
C3_InputDetailsCanonical ==
    InBundled =>
        \A p \in Perms(inRes.of) :
            InputSet_hash_bundle(p).val.hash_details = inRes.res.val.hash_details

\* C4: whenever OutputSet::hash or hash_bundle has returned a hash for a set, hashing
\* any permutation of that set returns the same top-level hash.
C4_OutputHashOrderIndependent ==
    OutHashed =>
        \A p \in Perms(outRes.of) :
            /\ OutputSet_hash(p).ok
            /\ OutputSet_hash(p).val = TopHash(outRes)
            /\ OutputSet_hash_bundle(p).val.hash = TopHash(outRes)

IsAbsentFile(o) == o.kind = "File" /\ ~o.present
IsEmptyPresentFile(o) == o.kind = "File" /\ o.present /\ fs[o.filename] = Present(EmptyStr)

\* C5: in a bundle of OutputSet::hash_bundle the digest recorded for a File output with
\* present = false differs from the digest recorded for a present File output whose
\* file is empty; and the bundle of the single absent File output and the bundle of the
\* single present, empty File output have different hashes.
C5_AbsentDiffersFromEmptyFile ==
    OutBundled =>
        LET d == outRes.res.val.hash_details IN
        /\ \A i, j \in 1..Len(d) :
              IsAbsentFile(d[i][1]) /\ IsEmptyPresentFile(d[j][1]) => d[i][2] # d[j][2]
        /\ (Len(d) = 1 /\ (IsAbsentFile(d[1][1]) \/ IsEmptyPresentFile(d[1][1]))
                /\ fs[d[1][1].filename] = Present(EmptyStr)) =>
              LET flipped == [d[1][1] EXCEPT !.present = ~@] IN
              OutputSet_hash_bundle(<<flipped>>).val.hash # outRes.res.val.hash

C5_Witness ==
    /\ OutBundled
    /\ \E i, j \in 1..Len(outRes.res.val.hash_details) :
          /\ IsAbsentFile(outRes.res.val.hash_details[i][1])
          /\ IsEmptyPresentFile(outRes.res.val.hash_details[j][1])

\* C6 as stated: the digest recorded for a File output with present = false is the
\* hash primitive's digest of the empty string.
C6_AbsentDigestIsHashOfEmpty ==
    OutBundled =>
        LET d == outRes.res.val.hash_details IN
        \A i \in 1..Len(d) : IsAbsentFile(d[i][1]) => d[i][2] = string_hash(EmptyStr)

\* C6 amended: the digest recorded for a File output with present = false is the empty
\* string itself, which is the digest of nothing.
C6_AbsentDigestIsEmptyString ==
    OutBundled =>
        LET d == outRes.res.val.hash_details IN
        \A i \in 1..Len(d) :
            IsAbsentFile(d[i][1]) =>
                /\ Len(d[i][2]) = 0
                /\ \A m \in DOMAIN Sha256Table : d[i][2] # Sha256Hex(m)

C6_Witness ==
    /\ OutBundled
    /\ Len(outRes.of) >= 2
    /\ \E i \in 1..Len(outRes.res.val.hash_details) :
          IsAbsentFile(outRes.res.val.hash_details[i][1])
    /\ \E i \in 1..Len(outRes.res.val.hash_details) :
          ~IsAbsentFile(outRes.res.val.hash_details[i][1])

HasUnreadableInput(ins) ==
    \E i \in 1..Len(ins) : ins[i].kind = "File" /\ Unreadable(ins[i].val)
HasUnreadableOutput(outs) ==
    \E i \in 1..Len(outs) :
        outs[i].kind = "File" /\ outs[i].present /\ Unreadable(outs[i].filename)

\* C7: when a File input, or a File output with present = true, cannot be opened or
\* read, hash and hash_bundle return an error that carries no bundle and no hash,
\* wherever the item sits and whatever the other items are.
C7_UnreadableFileIsFatal ==
    /\ (inRes.op # "none" /\ HasUnreadableInput(inRes.of)) =>
            ~inRes.res.ok /\ DOMAIN inRes.res = {"ok", "err"}
    /\ (outRes.op # "none" /\ HasUnreadableOutput(outRes.of)) =>
            ~outRes.res.ok /\ DOMAIN outRes.res = {"ok", "err"}

C7_Witness ==
    /\ inRes.op = "hash_bundle"
    /\ Len(inRes.of) = MaxInputs
    /\ inRes.of[1].kind = "ToolTag"
    /\ inRes.of[2].kind = "File" /\ ~Unreadable(inRes.of[2].val)
    /\ inRes.of[3].kind = "File" /\ Unreadable(inRes.of[3].val)
    /\ ~inRes.res.ok

CodesOf(outs) == {outs[i].code : i \in {k \in 1..Len(outs) : outs[k].kind = "ExitCode"}}

\* C8 as stated: result_code returns Some(c) for every ExitCode(c) of the set, and None
\* for a set without ExitCode.
C8_ResultCodeIsInsertedCode ==
    outCode.op = "result_code" =>
        /\ \A c \in CodesOf(outRes.of) : outCode.res.val = SomeCode(c)
        /\ CodesOf(outRes.of) = {} => outCode.res.val = NoCode

\* C8 amended: result_code returns Some(c) when the set contains ExitCode(c) and no
\* ExitCode with another code, at any position and among any other outputs; None for a
\* set without ExitCode; and the code of one of the ExitCode outputs otherwise.
C8_ResultCodeOfSingleCode ==
    outCode.op = "result_code" =>
        LET codes == CodesOf(outRes.of) IN
        /\ \A c \in codes : codes = {c} => outCode.res.val = SomeCode(c)
        /\ codes = {} => outCode.res.val = NoCode
        /\ codes # {} => outCode.res.val.some /\ outCode.res.val.code \in codes

C8_Witness ==
    /\ outCode.op = "result_code"
    /\ Len(outRes.of) = MaxOutputs
    /\ outRes.of[1].kind = "ExitCode"
    /\ outRes.res.val.hash_details[MaxOutputs][1].kind = "ExitCode"
    /\ outCode.res.val = SomeCode(outRes.of[1].code)

CfgDone == cfgRes.op = "new" /\ cfgRes.res.kind = "Ok"

\* C9: when the command line and CAPSULE_ARGS both supply a capsule_id, the Config
\* that Config::new returns carries the command line's.
C9_CommandLineCapsuleIdWins ==
    CfgDone =>
        LET cmdline == get_matches_from(env.args).val.capsule_id
            capsule_args == get_matches_from(env.CAPSULE_ARGS).val.capsule_id
        IN (cmdline # NoOpt /\ capsule_args # NoOpt) =>
              cfgRes.res.config.capsule_id = cmdline

Elems(s) == {s[i] : i \in 1..Len(s)}

\* C10: when Capsules.toml has an entry for the selected capsule identifier, the
\* Config that Config::new returns holds that entry's input files, tool tags and
\* output files, and captures stdout / stderr when the entry asks for it.
C10_DirEntryMerged ==
    (CfgDone /\ env.dirFile.kind = "Toml"
        /\ cfgRes.res.config.capsule_id[1] \in DOMAIN env.dirFile.val) =>
        LET entry == env.dirFile.val[cfgRes.res.config.capsule_id[1]]
            config == cfgRes.res.config
        IN /\ Elems(entry.input_files) \subseteq Elems(config.input_files)
           /\ Elems(entry.tool_tags) \subseteq Elems(config.tool_tags)
           /\ Elems(entry.output_files) \subseteq Elems(config.output_files)
           /\ entry.capture_stdout => config.capture_stdout
           /\ entry.capture_stderr => config.capture_stderr

CfgCalled == cfgRes.op = "new"

\* An absent file gives what a present file holding nothing but the defaults gives.
AbsentHomeIsDefaults ==
    (CfgCalled /\ env.HOME /\ env.homeFile.kind = "Absent") =>
        cfgRes.res = Config_new([env EXCEPT !.homeFile = Toml(Config_default)])
AbsentDirIsDefaults ==
    (CfgCalled /\ env.dirFile.kind = "Absent") =>
        cfgRes.res = Config_new([env EXCEPT !.dirFile = Toml(<<>>)])

\* A present file that does not parse keeps Config::new from returning a Config.
MalformedHomeIsError ==
    (CfgCalled /\ env.HOME /\ env.homeFile.kind = "Malformed") => cfgRes.res.kind # "Ok"
MalformedDirIsError ==
    (CfgCalled /\ env.dirFile.kind = "Malformed") => cfgRes.res.kind # "Ok"

\* C11: for ~/.capsules.toml and for Capsules.toml alike, Config::new proceeds with
\* defaults when the file is absent, and returns an error instead of falling back to
\* defaults when the file is present and cannot be parsed.
C11_AbsentDefaultsMalformedFatal ==
    /\ AbsentHomeIsDefaults
    /\ AbsentDirIsDefaults
    /\ MalformedHomeIsError
    /\ MalformedDirIsError

====
